---------------------------- MODULE Spec2Model ----------------------------
(***************************************************************************)
(* State-machine model of the real-time synchronisation layer of the       *)
(* ai-trading dashboard:                                                   *)
(*   - the candle series kept by the useMarketData hook                    *)
(*     (src/unnamed/part_000, the hook variant that merges live kline      *)
(*     frames into candleData), and                                        *)
(*   - the BinanceWebSocket stream connection manager                      *)
(*     (src/lib/websocket.ts).                                             *)
(*                                                                         *)
(* Conventions                                                             *)
(*   - times are whole seconds, frame / row times whole milliseconds;      *)
(*   - prices are kept in hundredths, decimal strings are parsed by        *)
(*     ParseFloat;                                                         *)
(*   - a bar is [time, close, src]: open/high/low/volume are copied by     *)
(*     the code exactly as close is and are left out; src is a ghost       *)
(*     field recording which producer built the bar.                       *)
(***************************************************************************)
EXTENDS Integers, Sequences, FiniteSets, TLC

VARIABLES
    \* ---- useMarketData hook (src/unnamed/part_000) ----
    candleData,        \* useState<ProcessedCandle[]>: the candle series
    fetchesInFlight,   \* fetchData() calls awaiting binanceFetcher.fetchKlines
    fetchesStarted,    \* number of fetchData() calls made so far
    klineCount,        \* number of kline frames handled so far
    lastKline,         \* the bar built by the last handleKlineUpdate (or NoBar)
    \* ---- BinanceWebSocket (src/lib/websocket.ts) ----
    ws,                \* this.ws: id of the manager's socket, 0 for null
    isConnecting,      \* this.isConnecting
    reconnectAttempts, \* this.reconnectAttempts
    currentUrlIndex,   \* this.currentUrlIndex (0-based index into wsUrls)
    connectionTimeout, \* TRUE while the 10 s timer held in this.connectionTimeout is pending
    pingInterval,      \* TRUE while the 30 s interval held in this.pingInterval runs
    stream,            \* `${this.symbol}@kline_${this.interval}`
    sockets,           \* the WebSocket objects that can still deliver events, and this.ws
    reconnectTimers,   \* pending setTimeout callbacks of handleReconnect
    streamTimers,      \* pending setTimeout(() => this.connect(), 100) of changeStream
    \* ---- what the consumer of the manager has observed / done ----
    connected,         \* last argument of onConnectionChange ("unset" before the first)
    lastError,         \* argument of onErrorCallback in the step just taken ("" if not called)
    lastDelay,         \* delay (ms) handleReconnect passed to setTimeout in the step just taken (-1 if none)
    dropped,           \* the OPEN socket of the manager broke off; no open event since
    manualOff,         \* disconnect() was the consumer's last word (no connect/changeStream since)
    exhausted,         \* the terminal error was reported, no connect/changeStream since
    klineCalled,       \* onKlineUpdate was invoked in the step just taken
    tickerCalled,      \* onTickerUpdate was invoked in the step just taken
    currentPrice,      \* currentPrice as set by handleKlineUpdate / handleTickerUpdate (-1 for null)
    failedAttempts,    \* connection attempts that failed in a row (no open event, disconnect() or changeStream() between)
    rotations,         \* advances of currentUrlIndex during those attempts
    endpointFailures,  \* those of the failed attempts that were made since currentUrlIndex last advanced
    calls,             \* number of consumer calls made so far
    \* ---- the /api/binance route (src/app/api/binance/route.ts) ----
    cache,             \* const cache = new Map<string, CacheEntry>()
    clock,             \* Date.now() (ms)
    ticks,             \* number of times the clock was advanced
    pending,           \* GET requests awaiting the upstream fetch
    requests,          \* number of GET requests received so far
    response,          \* the response sent in the step just taken (kind "none" if none)
    \* ---- one call of BinanceDataFetcher.fetchKlines (src/lib/ai-analyzer.ts) ----
    klInput,           \* the array the response carries (await response.json())
    klOutput,          \* the array fetchKlines returns
    klDone,            \* fetchKlines has returned
    \* ---- useMarketData, subscription state (src/hooks/useMarketData.ts) ----
    subscription,      \* [symbol, timeframe]: currentSymbol, currentTimeframe
    subSeries,         \* candleData, each bar with the subscription it was fetched for
    subQuote,          \* the symbol tickerData / currentPrice were fetched for ("none", "fallback")
    subInFlight,       \* the fetchKlines / fetch24hrTicker calls awaited, with their arguments
    subChanges,        \* number of changeTimeframe / changeSymbol / refreshData calls so far
    \* ---- one call of binanceFetch (src/lib/timeout-fetch.ts) ----
    tfAttempt,         \* attempt: the loop variable of timeoutFetch
    tfPhase,           \* "fetching", "delay" (waiting before the retry), "returned", "thrown"
    tfElapsed,         \* ms since fetch() of the current attempt was called; in phase "delay", the delay waited
    tfOutcomes,        \* how the attempts made so far ended
    \* ---- useMarketData, the WebSocket error notice (src/hooks/useMarketData.ts) ----
    errNow,            \* the time (ms)
    wsError,           \* useState wsError: the error shown, with the time it was set (NoError for null)
    errTimers,         \* the times at which the pending setTimeout(() => setWsError(null)) fire
    errRaised,         \* number of handleWebSocketError calls so far
    \* ---- useMarketData, the quote (src/hooks/useMarketData.ts) ----
    quote,             \* [price, change, changePercent]: currentPrice (-1 for null), priceChange, priceChangePercent, in hundredths
    quoteFetches,      \* number of fetchPriceData calls settled so far
    quoteFrames,       \* number of stream frames received so far
    \* ---- a bulk payload from upstream to the hook (route.ts, ai-analyzer.ts, useMarketData.ts) ----
    shCache,           \* the route's cache
    shResponse,        \* the route's response the fetcher is reading (kind "none" if none)
    shOutcome,         \* what the fetcher did with the last response: "none", "returned", "threw"
    shSeries,          \* the shape of the payload candleData was built from ("none", "mock")
    shQuote,           \* the shape of the payload the quote was built from ("none", "fallback")
    shRequests         \* number of requests made so far

hookVars == <<candleData, fetchesInFlight, fetchesStarted, klineCount, lastKline>>

wsVars == <<ws, isConnecting, reconnectAttempts, currentUrlIndex, connectionTimeout,
            pingInterval, stream, sockets, reconnectTimers, streamTimers,
            connected, lastError, lastDelay, dropped, manualOff, exhausted,
          failedAttempts, rotations, endpointFailures,
          klineCalled, tickerCalled, currentPrice, calls>>

apiVars == <<cache, clock, ticks, pending, requests, response>>

\* the variables of the other components, which hook and manager leave alone
klVars == <<klInput, klOutput, klDone>>

subVars == <<subscription, subSeries, subQuote, subInFlight, subChanges>>

tfVars == <<tfAttempt, tfPhase, tfElapsed, tfOutcomes>>

errVars == <<errNow, wsError, errTimers, errRaised>>

quoteVars == <<quote, quoteFetches, quoteFrames>>

shVars == <<shCache, shResponse, shOutcome, shSeries, shQuote, shRequests>>

\* the components added last
extVars == <<tfVars, errVars, quoteVars, shVars>>

restVars == <<apiVars, klVars, subVars, extVars>>

vars == <<candleData, fetchesInFlight, fetchesStarted, klineCount, lastKline,
          cache, clock, ticks, pending, requests, response,
          klInput, klOutput, klDone,
          subscription, subSeries, subQuote, subInFlight, subChanges,
          tfAttempt, tfPhase, tfElapsed, tfOutcomes,
          errNow, wsError, errTimers, errRaised,
          quote, quoteFetches, quoteFrames,
          shCache, shResponse, shOutcome, shSeries, shQuote, shRequests,
          ws, isConnecting, reconnectAttempts, currentUrlIndex, connectionTimeout,
          pingInterval, stream, sockets, reconnectTimers, streamTimers,
          connected, lastError, lastDelay, dropped, manualOff, exhausted,
          failedAttempts, rotations, endpointFailures,
          klineCalled, tickerCalled, currentPrice, calls>>

---------------------------------------------------------------------------
(* Bounds of the model *)

\* fetchData() calls explored (the mount fetch included)
MaxFetches == 2
\* kline frames explored
MaxKlines == 3
\* consumer calls (connect, disconnect, changeStream) explored
MaxCalls == 2
\* changeTimeframe / changeSymbol / refreshData calls explored
MaxChanges == 2
\* fetchPriceData calls / stream frames explored for the quote
MaxQuoteFetches == 3
MaxQuoteFrames == 3
\* bulk requests explored for the shapes of payloads
MaxShapeRequests == 3
\* handleWebSocketError calls explored
MaxErrors == 3
\* length of the arrays given to fetchKlines
MaxRows == 3
\* GET requests to /api/binance explored
MaxRequests == 2
\* advances of the route's clock explored
MaxTicks == 2
\* distinct upstream payloads explored
MaxPayloads == 1

(* Program constants *)

\* "Keep only last 100 candles"
MaxCandles == 100
\* the limit fetchData passes to fetchKlines
FetchLimit == 100
\* generateMockData: 100 bars ...
MockCount == 100
\* ... at 5-minute intervals
MockStepSec == 300
\* Binance '1m' bar width in milliseconds
BarMs == 60000
\* the tick (bar index) of the newest bar the upstream holds when the model starts
NowTick == 600
\* private maxReconnectAttempts = 5
MaxReconnectAttempts == 5
\* wsUrls.length
NumUrls == 3
\* the backoff unit, 1000 * Math.pow(2, ...)
BackoffUnitMs == 1000
\* the backoff cap, Math.min(..., 30000)
BackoffCapMs == 30000
\* jitter = Math.random() * 1000
JitterRangeMs == 1000
\* CACHE_TTL.ticker
CacheTtlTicker == 30000
\* CACHE_TTL.price
CacheTtlPrice == 15000
\* CACHE_TTL.klines
CacheTtlKlines == 300000
\* HTTP status of NextResponse.json(data) without a status
\* setCurrentPrice(95000): the price fetchPriceData sets when the fetch fails
FallbackPrice == 95000

\* setTimeout(() => setWsError(null), 10000)
ErrorClearMs == 10000

\* binanceFetch: timeout (ms), retries, retryDelay (ms)
BinanceTimeoutMs == 15000

BinanceRetries == 2

BinanceRetryDelayMs == 2000

StatusOk == 200
\* HTTP status of the klines error response
StatusError == 500
\* close code of a normal closure, the one disconnect() passes to ws.close
NormalClosure == 1000
\* close code reported when a connection ends without a closing handshake
AbnormalClosure == 1006
\* close code of a server that is going away
GoingAway == 1001

---------------------------------------------------------------------------
(* Helpers *)

Last(s) == s[Len(s)]

Front(s) == SubSeq(s, 1, Len(s) - 1)

NoBar == [time |-> -1, close |-> 0, src |-> "none"]

\* parseFloat on the decimal strings the model uses (value in hundredths)
ParseFloat(s) ==
    CASE s = "100.00" -> 10000
      [] s = "101.50" -> 10150
      [] s = "0.00"   -> 0
      [] s = "1.50"   -> 150
      [] s = "-2.25"  -> -225
      [] OTHER        -> 0

PriceStrings == {"100.00", "101.50"}

\* data.k.t / 1000, candle[0] / 1000 (row and frame times are whole seconds in ms)
MsToSeconds(ms) == ms \div 1000

---------------------------------------------------------------------------
(* BinanceDataFetcher.fetchKlines: map, sort ascending, drop duplicates *)

\* one upstream row [openTimeMs, open, high, low, close, volume, ...]
Row(tick, closeStr) == [t |-> tick * BarMs, c |-> closeStr]

\* data.map(candle => ({time: candle[0] / 1000, ..., close: parseFloat(candle[4])}))
MapRows(rows) ==
    [i \in 1..Len(rows) |->
        [time |-> MsToSeconds(rows[i].t), close |-> ParseFloat(rows[i].c), src |-> "upstream"]]

\* .sort((a, b) => a.time - b.time): Array.prototype.sort is stable, so the
\* element at index i lands behind every element with a smaller time and behind
\* the equal-time elements that precede it in the input
SortByTime(s) ==
    LET n == Len(s)
        rank == [i \in 1..n |->
                    Cardinality({j \in 1..n : \/ s[j].time < s[i].time
                                              \/ s[j].time = s[i].time /\ j <= i})]
        at == [k \in 1..n |-> CHOOSE i \in 1..n : rank[i] = k]
    IN  [k \in 1..n |-> s[at[k]]]

\* the elements of s at the indexes in keep, in order
SelectSeq2(s, keep) ==
    LET pos == [i \in 1..Len(s) |-> Cardinality({j \in keep : j <= i})]
        at == [k \in 1..Cardinality(keep) |-> CHOOSE i \in keep : pos[i] = k]
    IN  [k \in 1..Cardinality(keep) |-> s[at[k]]]

\* (mutant) the filter keeps the last bar of each timestamp
DropDuplicates_KeepsLast(s) ==
    SelectSeq2(s, {i \in 1..Len(s) : i = Len(s) \/ s[i].time # s[i + 1].time})

\* .filter((candle, index, array) => index === 0 || candle.time !== array[index-1].time)
DropDuplicates(s) ==
    SelectSeq2(s, {i \in 1..Len(s) : i = 1 \/ s[i].time # s[i - 1].time})

ProcessKlines(rows) == DropDuplicates(SortByTime(MapRows(rows)))

\* The upstream klines endpoint answers a request for `limit` rows with at most
\* `limit` rows: the n newest bars up to tick e, in ascending order ...
RunOfRows(n, e) == [i \in 1..n |-> Row(e - n + i, "100.00")]

\* ... and, to exercise the sort and the duplicate filter, short replies that
\* are out of order or repeat a bar.
OddReplies ==
    { <<Row(NowTick, "100.00"), Row(NowTick - 1, "100.00")>>,
      <<Row(NowTick - 1, "100.00"), Row(NowTick, "100.00"), Row(NowTick, "101.50")>> }

UpstreamReplies(limit) ==
    { r \in { RunOfRows(n, NowTick) : n \in {0, 2, limit - 1, limit} } \cup OddReplies :
        Len(r) <= limit }

\* what binanceFetcher.fetchKlines('BTCUSDT', interval, 100) may resolve with
FetchKlinesResults == { ProcessKlines(rows) : rows \in UpstreamReplies(FetchLimit) }

\* the rows an upstream array may hold: three neighbouring bars, two prices
InputRows == { Row(tick, p) : tick \in (NowTick - 1)..(NowTick + 1), p \in {"100.00", "101.50"} }

\* all sequences over S of length at most n
SeqsUpTo(S, n) == UNION { [1..k -> S] : k \in 0..n }

\* no call of fetchKlines under way
KlinesIdle == klInput = <<>> /\ klOutput = <<>> /\ klDone = FALSE

\* a call of fetchKlines whose response carries any array of rows, in any
\* order and with any repetition
KlinesInit == klInput \in SeqsUpTo(InputRows, MaxRows) /\ klOutput = <<>> /\ klDone = FALSE

---------------------------------------------------------------------------
(* generateMockData *)

\* Math.floor(Date.now() / 1000) at the moment the fallback runs
MockNows == {NowTick * 60, NowTick * 60 + 30}

\* for (i = 99; i >= 0; i--) data.push({time: now - i * 300, ...}) ; the
\* prices are a random walk, kept as one representative value
GenerateMockData(now) ==
    [k \in 1..MockCount |->
        [time |-> now - (MockCount - k) * MockStepSec, close |-> 4500000, src |-> "mock"]]

---------------------------------------------------------------------------
(* BinanceWebSocket: the stream connection manager *)

\* the (symbol, interval) pairs the consumer may subscribe to
Streams == {"btcusdt@kline_1m", "btcusdt@kline_5m"}

\* representative values of Math.random() * 1000 (ms, rounded down)
Jitters == {0, 500, JitterRangeMs - 1}

\* whether `new WebSocket(wsUrl)` throws: it does for a URL that does not
\* parse, and the URLs built from wsUrls and the stream name all parse
ConstructorThrows == {FALSE}

\* close codes a server may put in its Close frame
ServerCloseCodes == {NormalClosure, GoingAway}

\* A WebSocket object: readyState, the stream it was opened for, whether its
\* connection was failed (the browser then fires error and close with 1006 and
\* no clean handshake) and whether disconnect() closed it.
NewSocket(st) == [readyState |-> "CONNECTING", stream |-> st, failed |-> FALSE, manual |-> FALSE]

\* the state of the whole manager, as a record the handlers transform
WsState ==
    [ws |-> ws, isConnecting |-> isConnecting, reconnectAttempts |-> reconnectAttempts,
     currentUrlIndex |-> currentUrlIndex, connectionTimeout |-> connectionTimeout,
     pingInterval |-> pingInterval, stream |-> stream, sockets |-> sockets,
     reconnectTimers |-> reconnectTimers, streamTimers |-> streamTimers,
     connected |-> connected, lastError |-> lastError, lastDelay |-> lastDelay,
     dropped |-> dropped, manualOff |-> manualOff, exhausted |-> exhausted,
     failedAttempts |-> failedAttempts, rotations |-> rotations,
     endpointFailures |-> endpointFailures,
     klineCalled |-> klineCalled, tickerCalled |-> tickerCalled,
     currentPrice |-> currentPrice,
     calls |-> calls]

\* the state of a manager right after `new BinanceWebSocket(symbol, interval)`
FreshManager(st) ==
    [ws |-> 0, isConnecting |-> FALSE, reconnectAttempts |-> 0,
     currentUrlIndex |-> 0, connectionTimeout |-> FALSE,
     pingInterval |-> FALSE, stream |-> st, sockets |-> <<>>,
     reconnectTimers |-> 0, streamTimers |-> 0,
     connected |-> "unset", lastError |-> "", lastDelay |-> -1,
     dropped |-> FALSE, manualOff |-> FALSE, exhausted |-> FALSE,
     failedAttempts |-> 0, rotations |-> 0, endpointFailures |-> 0,
     klineCalled |-> FALSE, tickerCalled |-> FALSE, currentPrice |-> -1,
     calls |-> 0]

\* a socket that is CLOSED has delivered its close event and delivers nothing
\* more: it is kept only while this.ws still refers to it
Collect(S) ==
    LET live == {id \in DOMAIN S.sockets : S.sockets[id].readyState # "CLOSED" \/ id = S.ws}
    IN  [S EXCEPT !.sockets = [id \in live |-> S.sockets[id]]]

\* the state a step starts from: nothing reported, nothing scheduled yet
Begin ==
    [WsState EXCEPT !.lastError = "", !.lastDelay = -1,
                    !.klineCalled = FALSE, !.tickerCalled = FALSE]

\* the state S as the current state / as the next state
Assign(S) ==
    /\ ws = S.ws /\ isConnecting = S.isConnecting
    /\ reconnectAttempts = S.reconnectAttempts /\ currentUrlIndex = S.currentUrlIndex
    /\ connectionTimeout = S.connectionTimeout /\ pingInterval = S.pingInterval
    /\ stream = S.stream /\ sockets = S.sockets
    /\ reconnectTimers = S.reconnectTimers /\ streamTimers = S.streamTimers
    /\ connected = S.connected /\ lastError = S.lastError /\ lastDelay = S.lastDelay
    /\ dropped = S.dropped
    /\ failedAttempts = S.failedAttempts /\ rotations = S.rotations
    /\ endpointFailures = S.endpointFailures
    /\ klineCalled = S.klineCalled /\ tickerCalled = S.tickerCalled
    /\ currentPrice = S.currentPrice
    /\ manualOff = S.manualOff /\ exhausted = S.exhausted /\ calls = S.calls

Commit(T) ==
    LET S == Collect(T)
    IN  /\ ws' = S.ws /\ isConnecting' = S.isConnecting
        /\ reconnectAttempts' = S.reconnectAttempts /\ currentUrlIndex' = S.currentUrlIndex
        /\ connectionTimeout' = S.connectionTimeout /\ pingInterval' = S.pingInterval
        /\ stream' = S.stream /\ sockets' = S.sockets
        /\ reconnectTimers' = S.reconnectTimers /\ streamTimers' = S.streamTimers
        /\ connected' = S.connected /\ lastError' = S.lastError /\ lastDelay' = S.lastDelay
        /\ dropped' = S.dropped
        /\ failedAttempts' = S.failedAttempts /\ rotations' = S.rotations
        /\ endpointFailures' = S.endpointFailures
        /\ klineCalled' = S.klineCalled /\ tickerCalled' = S.tickerCalled
        /\ currentPrice' = S.currentPrice
        /\ manualOff' = S.manualOff /\ exhausted' = S.exhausted /\ calls' = S.calls

\* the smallest id no socket of the state carries
NewId(S) == CHOOSE id \in 1..(Cardinality(DOMAIN S.sockets) + 1) : id \notin DOMAIN S.sockets

\* this.ws?.readyState, "none" for a null this.ws
ReadyState(S) == IF S.ws = 0 THEN "none" ELSE S.sockets[S.ws].readyState

\* isConnected(): this.ws?.readyState === WebSocket.OPEN
IsConnected(S) == ReadyState(S) = "OPEN"

Min(a, b) == IF a <= b THEN a ELSE b

\* (mutant) the exponent is the attempt count itself
BaseDelay_OffByOne(a) == Min(BackoffUnitMs * 2^a, BackoffCapMs)

\* const baseDelay = Math.min(1000 * Math.pow(2, this.reconnectAttempts - 1), 30000)
BaseDelay(a) == Min(BackoffUnitMs * 2^(a - 1), BackoffCapMs)

\* handleConnectionError: this.onErrorCallback?.(error)
HandleConnectionError(S, error) == [S EXCEPT !.lastError = error]

\* handleReconnect, with the value Math.random() * 1000 takes
HandleReconnect(S, jitter) ==
    IF S.reconnectAttempts < MaxReconnectAttempts
    THEN LET a == S.reconnectAttempts + 1
         IN  [S EXCEPT !.reconnectAttempts = a,
                       !.currentUrlIndex = IF a > 2 THEN (@ + 1) % NumUrls ELSE @,
                       !.rotations = IF a > 2 THEN @ + 1 ELSE @,
                       !.endpointFailures = IF a > 2 THEN 0 ELSE @,
                       !.lastDelay = BaseDelay(a) + jitter,
                       !.reconnectTimers = @ + 1]
    ELSE [HandleConnectionError(S, "Max reconnection attempts reached")
            EXCEPT !.exhausted = TRUE]

\* stopHeartbeat
StopHeartbeat(S) == [S EXCEPT !.pingInterval = FALSE]

\* startHeartbeat
StartHeartbeat(S) == [StopHeartbeat(S) EXCEPT !.pingInterval = TRUE]

\* ws.close() on socket id: a CONNECTING socket has its connection failed, an
\* OPEN one starts the closing handshake, a CLOSING or CLOSED one is left alone
CloseSocket(S, id, byDisconnect) ==
    IF S.sockets[id].readyState \in {"CONNECTING", "OPEN"}
    THEN [S EXCEPT !.sockets[id] =
            [@ EXCEPT !.readyState = "CLOSING",
                      !.failed = (S.sockets[id].readyState = "CONNECTING"),
                      !.manual = byDisconnect]]
    ELSE S

\* (mutant) onopen leaves the endpoint index where the rotation put it
OnOpen_KeepsIndex(S) ==
    [StartHeartbeat([S EXCEPT !.isConnecting = FALSE, !.reconnectAttempts = 0,
                              !.connectionTimeout = FALSE])
        EXCEPT !.connected = "true", !.dropped = FALSE,
               !.failedAttempts = 0, !.rotations = 0, !.endpointFailures = 0]

\* ws.onopen
OnOpen(S) ==
    [StartHeartbeat([S EXCEPT !.isConnecting = FALSE, !.reconnectAttempts = 0,
                              !.currentUrlIndex = 0, !.connectionTimeout = FALSE])
        EXCEPT !.connected = "true", !.dropped = FALSE,
               !.failedAttempts = 0, !.rotations = 0, !.endpointFailures = 0]

\* the text frames a socket subscribed to stream st may receive: kline events
\* of that stream, a kline event without its k object, an event of another
\* type, and text that is not JSON
StreamFrames(st) ==
    { [json |-> TRUE, e |-> "kline", s |-> st, hasK |-> TRUE, c |-> p] : p \in {"100.00", "101.50"} }
    \cup { [json |-> TRUE, e |-> "kline", s |-> st, hasK |-> FALSE, c |-> ""],
           [json |-> TRUE, e |-> "24hrTicker", s |-> st, hasK |-> FALSE, c |-> ""],
           [json |-> FALSE, e |-> "", s |-> st, hasK |-> FALSE, c |-> ""] }

\* the hook's handleKlineUpdate, as the manager's onKlineUpdate callback:
\* reading data.k.t of a frame without k throws, else setCurrentPrice(close)
KlineCallback(S, frame) ==
    IF frame.hasK
    THEN [S EXCEPT !.klineCalled = TRUE, !.currentPrice = ParseFloat(frame.c)]
    ELSE [S EXCEPT !.klineCalled = TRUE]

\* the hook's handleTickerUpdate, as the manager's onTickerUpdate callback
TickerCallback(S, frame) ==
    [S EXCEPT !.tickerCalled = TRUE, !.currentPrice = ParseFloat(frame.c)]

\* (mutant) a frame that does not parse makes the manager close its socket
OnMessage_ParseErrorCloses(S, frame) ==
    IF ~frame.json
    THEN CloseSocket(HandleConnectionError(S, "Message parsing error"), S.ws, FALSE)
    ELSE S

\* ws.onmessage: JSON.parse, the callbacks, and the catch around both
OnMessage(S, frame) ==
    IF ~frame.json
    THEN HandleConnectionError(S, "Message parsing error")
    ELSE IF frame.e = "kline"
         THEN IF frame.hasK
              THEN IF frame.c # ""
                   THEN TickerCallback(KlineCallback(S, frame), frame)
                   ELSE KlineCallback(S, frame)
              ELSE HandleConnectionError(KlineCallback(S, frame), "Message parsing error")
         ELSE S

\* ws.onclose
OnClose(S, code, jitter) ==
    LET S1 == [StopHeartbeat([S EXCEPT !.isConnecting = FALSE, !.connectionTimeout = FALSE])
                 EXCEPT !.connected = "false"]
    IN  IF code # NormalClosure THEN HandleReconnect(S1, jitter) ELSE S1

\* ws.onerror
OnError(S) ==
    [HandleConnectionError([S EXCEPT !.isConnecting = FALSE], "Connection error")
        EXCEPT !.connected = "false"]

\* connect(); `throws` tells whether `new WebSocket(wsUrl)` throws
Connect(S, throws, jitter) ==
    IF S.isConnecting THEN S
    ELSE LET S1 == [S EXCEPT !.isConnecting = TRUE, !.connectionTimeout = FALSE]
         IN  IF throws
             THEN HandleReconnect(
                     HandleConnectionError([S1 EXCEPT !.isConnecting = FALSE],
                                           "Failed to create WebSocket"), jitter)
             ELSE LET id == NewId(S1)
                  IN  [S1 EXCEPT !.sockets = [i \in DOMAIN S1.sockets \cup {id} |->
                                                 IF i = id THEN NewSocket(S1.stream)
                                                 ELSE S1.sockets[i]],
                                 !.ws = id,
                                 !.connectionTimeout = TRUE]

\* disconnect()
Disconnect(S) ==
    LET S1 == [StopHeartbeat([S EXCEPT !.connectionTimeout = FALSE])
                 EXCEPT !.isConnecting = FALSE, !.reconnectAttempts = 0]
    IN  IF S1.ws # 0
        THEN [CloseSocket(S1, S1.ws, TRUE) EXCEPT !.ws = 0]
        ELSE S1

\* changeStream(symbol, interval)
ChangeStream(S, st) ==
    [Disconnect([S EXCEPT !.stream = st, !.currentUrlIndex = 0, !.reconnectAttempts = 0])
        EXCEPT !.streamTimers = @ + 1]

\* the callback of the connection-timeout timer
ConnectionTimeoutCallback(S) ==
    IF S.ws # 0 /\ ReadyState(S) = "CONNECTING"
    THEN CloseSocket(HandleConnectionError(S, "Connection timeout"), S.ws, FALSE)
    ELSE S

\* the callback of the timer handleReconnect sets
ReconnectCallback(S, throws, jitter) ==
    IF ~IsConnected(S) THEN Connect(S, throws, jitter) ELSE S

(* ---- the consumer's calls ---- *)

\* the consumer calls connect()
ConnectCall ==
    /\ calls < MaxCalls
    /\ \E throws \in ConstructorThrows, jitter \in Jitters :
          Commit([Connect(Begin, throws, jitter)
                    EXCEPT !.calls = @ + 1, !.manualOff = FALSE, !.exhausted = FALSE])
    /\ UNCHANGED <<hookVars, restVars>>

\* the consumer calls disconnect()
DisconnectCall ==
    /\ calls < MaxCalls
    /\ Commit([Disconnect(Begin) EXCEPT !.calls = @ + 1, !.manualOff = TRUE,
                                        !.failedAttempts = 0, !.rotations = 0, !.endpointFailures = 0])
    /\ UNCHANGED <<hookVars, restVars>>

\* the consumer calls changeStream(symbol, interval)
ChangeStreamCall ==
    /\ calls < MaxCalls
    /\ \E st \in Streams :
          Commit([ChangeStream(Begin, st)
                    EXCEPT !.calls = @ + 1, !.manualOff = FALSE, !.exhausted = FALSE,
                           !.failedAttempts = 0, !.rotations = 0, !.endpointFailures = 0])
    /\ UNCHANGED <<hookVars, restVars>>

(* ---- timers ---- *)

\* the 10 s connection-timeout timer fires
ConnectionTimeoutFire ==
    /\ connectionTimeout
    /\ Commit(ConnectionTimeoutCallback([Begin EXCEPT !.connectionTimeout = FALSE]))
    /\ UNCHANGED <<hookVars, restVars>>

\* a timer set by handleReconnect fires
ReconnectTimerFire ==
    /\ reconnectTimers > 0
    /\ \E throws \in ConstructorThrows, jitter \in Jitters :
          Commit(ReconnectCallback([Begin EXCEPT !.reconnectTimers = @ - 1], throws, jitter))
    /\ UNCHANGED <<hookVars, restVars>>

\* the 100 ms timer set by changeStream fires
StreamTimerFire ==
    /\ streamTimers > 0
    /\ \E throws \in ConstructorThrows, jitter \in Jitters :
          Commit(Connect([Begin EXCEPT !.streamTimers = @ - 1], throws, jitter))
    /\ UNCHANGED <<hookVars, restVars>>

\* the 30 s heartbeat fires: a ping is sent on an OPEN this.ws, nothing is
\* sent otherwise; the manager's state is not touched either way
HeartbeatTick ==
    /\ pingInterval
    /\ Commit(Begin)
    /\ UNCHANGED <<hookVars, restVars>>

(* ---- socket events ---- *)

\* the end of socket id with this close code is an abnormal drop of the
\* manager's open connection
DropsOpen(id, code) ==
    id = ws /\ sockets[id].readyState = "OPEN" /\ code # NormalClosure

\* 1 if the end of socket id is the failure of a connection attempt of the
\* manager (the socket never opened and disconnect() did not close it), else 0
AttemptFailed(id) ==
    IF /\ ~sockets[id].manual
       /\ sockets[id].readyState = "CONNECTING" \/ sockets[id].failed
    THEN 1 ELSE 0

\* socket id is established: readyState OPEN, open event
SocketOpen(id) ==
    /\ sockets[id].readyState = "CONNECTING"
    /\ Commit(OnOpen([Begin EXCEPT !.sockets[id].readyState = "OPEN"]))
    /\ UNCHANGED <<hookVars, restVars>>

\* socket id receives a text frame: message event (the browser delivers
\* messages of an OPEN socket only)
SocketMessage(id) ==
    /\ sockets[id].readyState = "OPEN"
    /\ \E frame \in StreamFrames(sockets[id].stream) : Commit(OnMessage(Begin, frame))
    /\ UNCHANGED <<hookVars, restVars>>

\* the connection of socket id breaks (handshake refused, network loss):
\* readyState CLOSED, error event, close event with code 1006
SocketFail(id) ==
    /\ sockets[id].readyState \in {"CONNECTING", "OPEN"}
    /\ \E jitter \in Jitters :
          Commit(OnClose(OnError([Begin EXCEPT !.sockets[id].readyState = "CLOSED",
                                               !.dropped = @ \/ DropsOpen(id, AbnormalClosure),
                                               !.failedAttempts = @ + AttemptFailed(id),
                                 !.endpointFailures = @ + AttemptFailed(id)]),
                         AbnormalClosure, jitter))
    /\ UNCHANGED <<hookVars, restVars>>

\* the server closes socket id with a Close frame: readyState CLOSED, close event
SocketServerClose(id) ==
    /\ sockets[id].readyState = "OPEN"
    /\ \E code \in ServerCloseCodes, jitter \in Jitters :
          Commit(OnClose([Begin EXCEPT !.sockets[id].readyState = "CLOSED",
                                       !.dropped = @ \/ DropsOpen(id, code)],
                         code, jitter))
    /\ UNCHANGED <<hookVars, restVars>>

\* a close() issued by the manager completes: readyState CLOSED; a failed
\* connection reports error and close 1006, a clean handshake close 1000
SocketClosed(id) ==
    /\ sockets[id].readyState = "CLOSING"
    /\ \E jitter \in Jitters :
          LET S == [Begin EXCEPT !.sockets[id].readyState = "CLOSED",
                                 !.failedAttempts = @ + AttemptFailed(id),
                                 !.endpointFailures = @ + AttemptFailed(id)]
          IN  Commit(IF sockets[id].failed
                     THEN OnClose(OnError(S), AbnormalClosure, jitter)
                     ELSE OnClose(S, NormalClosure, jitter))
    /\ UNCHANGED <<hookVars, restVars>>

\* createBinanceWebSocket(currentSymbol, currentTimeframe) on mount
WsInit == Assign(FreshManager("btcusdt@kline_1m"))

WsNext ==
    \/ ConnectCall
    \/ DisconnectCall
    \/ ChangeStreamCall
    \/ ConnectionTimeoutFire
    \/ ReconnectTimerFire
    \/ StreamTimerFire
    \/ HeartbeatTick
    \/ \E id \in DOMAIN sockets : SocketOpen(id)
    \/ \E id \in DOMAIN sockets : SocketMessage(id)
    \/ \E id \in DOMAIN sockets : SocketFail(id)
    \/ \E id \in DOMAIN sockets : SocketServerClose(id)
    \/ \E id \in DOMAIN sockets : SocketClosed(id)

---------------------------------------------------------------------------
(* useMarketData: the candle series *)

\* the kline frames the stream may deliver: the bar before the newest bulk bar,
\* the newest one, and the next one
KlineFrames ==
    { [t |-> tick * BarMs, c |-> p] : tick \in (NowTick - 1)..(NowTick + 1), p \in PriceStrings }

\* const currentCandle = {time: data.k.t / 1000, ..., close: parseFloat(data.k.c)}
CandleOfFrame(f) ==
    [time |-> MsToSeconds(f.t), close |-> ParseFloat(f.c), src |-> "stream"]

\* (mutant) the trim takes the newest bar instead of the oldest
TrimHead_DropsNewest(s) == IF Len(s) > MaxCandles THEN Front(s) ELSE s

\* what shift() leaves when the length exceeds 100
TrimHead(s) == IF Len(s) > MaxCandles THEN Tail(s) ELSE s

\* (mutant) the updater never recognises an update of the last bar
MergeCandle_AlwaysAppends(prev, candle) == TrimHead(Append(prev, candle))

\* the updater passed to setCandleData in handleKlineUpdate
MergeCandle(prev, candle) ==
    IF Len(prev) > 0 /\ Last(prev).time = candle.time
    THEN [prev EXCEPT ![Len(prev)] = candle]
    ELSE TrimHead(Append(prev, candle))

HookInit ==
    /\ candleData = <<>>
    /\ fetchesInFlight = 1          \* the mount effect: initializeData -> fetchData()
    /\ fetchesStarted = 1
    /\ klineCount = 0
    /\ lastKline = NoBar

\* refreshData / the auto-refresh interval: another fetchData() call
StartFetch ==
    /\ fetchesStarted < MaxFetches
    /\ fetchesStarted' = fetchesStarted + 1
    /\ fetchesInFlight' = fetchesInFlight + 1
    /\ UNCHANGED <<candleData, klineCount, lastKline>>
    /\ UNCHANGED <<wsVars, restVars>>

\* fetchData, try branch: fetchKlines resolved, setCandleData(candles)
FetchDataResolve ==
    /\ fetchesInFlight > 0
    /\ \E candles \in FetchKlinesResults :
          candleData' = candles
    /\ fetchesInFlight' = fetchesInFlight - 1
    /\ UNCHANGED <<fetchesStarted, klineCount, lastKline>>
    /\ UNCHANGED <<wsVars, restVars>>

\* fetchData, catch branch: fetchKlines threw, setCandleData(generateMockData())
FetchDataReject ==
    /\ fetchesInFlight > 0
    /\ \E now \in MockNows :
          candleData' = GenerateMockData(now)
    /\ fetchesInFlight' = fetchesInFlight - 1
    /\ UNCHANGED <<fetchesStarted, klineCount, lastKline>>
    /\ UNCHANGED <<wsVars, restVars>>

\* handleKlineUpdate: build the candle, merge it into candleData
HandleKlineUpdate ==
    /\ klineCount < MaxKlines
    /\ \E f \in KlineFrames :
          /\ lastKline' = CandleOfFrame(f)
          /\ candleData' = MergeCandle(candleData, CandleOfFrame(f))
    /\ klineCount' = klineCount + 1
    /\ UNCHANGED <<fetchesInFlight, fetchesStarted>>
    /\ UNCHANGED <<wsVars, restVars>>

HookNext ==
    \/ StartFetch
    \/ FetchDataResolve
    \/ FetchDataReject
    \/ HandleKlineUpdate

---------------------------------------------------------------------------
(* The /api/binance route: freshness cache and GET handler *)

Endpoints == {"ticker", "price", "klines"}

\* const cacheKey = `${endpoint}:${symbol}:${interval}:${limit}`
CacheKey(endpoint, symbol) == <<endpoint, symbol, "5m", "100">>

\* null / no payload
NoData == [src |-> "none", v |-> 0]

\* a payload the upstream answered with
UpstreamData(v) == [src |-> "upstream", v |-> v]

\* FALLBACK_DATA.ticker / FALLBACK_DATA.price with the symbol of the request
FallbackData(endpoint, symbol) == [src |-> "fallback:" \o endpoint, v |-> 0]

\* the switch (endpoint): cacheTtl
CacheTtl(endpoint) ==
    CASE endpoint = "ticker" -> CacheTtlTicker
      [] endpoint = "price"  -> CacheTtlPrice
      [] OTHER               -> CacheTtlKlines

\* the times the clock may advance by: one millisecond, or one millisecond
\* less than a TTL
Advances == {1} \cup {CacheTtl(e) - 1 : e \in Endpoints}

\* c with key removed
Without(c, key) == [k \in DOMAIN c \ {key} |-> c[k]]

\* (mutant) the sweep empties the cache
CleanupCache_DropsAll(c, now) == <<>>

\* cleanupCache()
CleanupCache(c, now) ==
    [k \in {k \in DOMAIN c : ~(now - c[k].timestamp > c[k].ttl)} |-> c[k]]

\* (mutant) an entry is served whatever its age
GetCachedData_NeverExpires(c, key, now) ==
    IF key \notin DOMAIN c
    THEN [data |-> NoData, cache |-> c]
    ELSE [data |-> c[key].data, cache |-> c]

\* getCachedData(key): the value returned and the cache it leaves
GetCachedData(c, key, now) ==
    IF key \notin DOMAIN c
    THEN [data |-> NoData, cache |-> c]
    ELSE IF now - c[key].timestamp > c[key].ttl
         THEN [data |-> NoData, cache |-> Without(c, key)]
         ELSE [data |-> c[key].data, cache |-> c]

\* setCacheData(key, data, ttl)
SetCacheData(c, key, data, ttl, now) ==
    [k \in DOMAIN c \cup {key} |->
        IF k = key THEN [data |-> data, timestamp |-> now, ttl |-> ttl] ELSE c[k]]

NoResponse ==
    [kind |-> "none", endpoint |-> "", symbol |-> "", status |-> 0,
     data |-> NoData, xFallback |-> FALSE, refresh |-> FALSE]

\* (mutant) the catch branch answers klines with a fallback as well
FailureResponse_FallbackForAll(req) ==
    [kind |-> "fallback", endpoint |-> req.endpoint, symbol |-> req.symbol,
     status |-> StatusOk, data |-> FallbackData(req.endpoint, req.symbol),
     xFallback |-> TRUE, refresh |-> req.refresh]

\* GET, catch branch: the response to a request whose upstream fetch failed
FailureResponse(req) ==
    IF req.endpoint = "ticker" \/ req.endpoint = "price"
    THEN [kind |-> "fallback", endpoint |-> req.endpoint, symbol |-> req.symbol,
          status |-> StatusOk, data |-> FallbackData(req.endpoint, req.symbol),
          xFallback |-> TRUE, refresh |-> req.refresh]
    ELSE [kind |-> "error", endpoint |-> req.endpoint, symbol |-> req.symbol,
          status |-> StatusError, data |-> NoData,
          xFallback |-> FALSE, refresh |-> req.refresh]

\* what binanceFetcher makes of a response: fetchKlines / fetch24hrTicker /
\* fetchLatestPrice throw when !response.ok and return the payload otherwise
FetcherResult(resp) ==
    IF resp.status = StatusOk
    THEN [throws |-> FALSE, data |-> resp.data]
    ELSE [throws |-> TRUE, data |-> NoData]

ApiInit ==
    /\ cache = <<>>
    /\ clock = 0
    /\ ticks = 0
    /\ pending = {}
    /\ requests = 0
    /\ response = NoResponse

\* time passes
AdvanceClock ==
    /\ ticks < MaxTicks
    /\ \E d \in Advances : clock' = clock + d
    /\ ticks' = ticks + 1
    /\ response' = NoResponse
    /\ UNCHANGED <<cache, pending, requests>>
    /\ UNCHANGED <<hookVars, wsVars, klVars, subVars, extVars>>

\* GET up to the await: the optional cleanup, the cache check, and either the
\* cached response or the upstream fetch started.  `refresh` records that the
\* request was issued by the hook's refreshData(); the route does not see it.
GetReceived(endpoint, symbol, refresh, cleanup) ==
    LET key == CacheKey(endpoint, symbol)
        c0  == IF cleanup THEN CleanupCache(cache, clock) ELSE cache
        got == GetCachedData(c0, key, clock)
    IN  /\ requests < MaxRequests
        /\ requests' = requests + 1
        /\ cache' = got.cache
        /\ IF got.data # NoData
           THEN /\ response' = [kind |-> "hit", endpoint |-> endpoint, symbol |-> symbol,
                                status |-> StatusOk, data |-> got.data,
                                xFallback |-> FALSE, refresh |-> refresh]
                /\ pending' = pending
           ELSE /\ response' = [NoResponse EXCEPT !.kind = "pending", !.endpoint = endpoint,
                                                  !.symbol = symbol, !.refresh = refresh]
                /\ pending' = pending \cup {[endpoint |-> endpoint, symbol |-> symbol,
                                              refresh |-> refresh, id |-> requests + 1]}
        /\ UNCHANGED <<clock, ticks>>
        /\ UNCHANGED <<hookVars, wsVars, klVars, subVars, extVars>>

GetRequest ==
    \E endpoint \in Endpoints, refresh \in BOOLEAN, cleanup \in BOOLEAN :
        GetReceived(endpoint, "BTCUSDT", refresh, cleanup)

\* GET after the await, response.ok: setCacheData and the MISS response
GetUpstreamOk ==
    \E req \in pending, v \in 1..MaxPayloads :
        /\ cache' = SetCacheData(cache, CacheKey(req.endpoint, req.symbol),
                                 UpstreamData(v), CacheTtl(req.endpoint), clock)
        /\ response' = [kind |-> "miss", endpoint |-> req.endpoint, symbol |-> req.symbol,
                        status |-> StatusOk, data |-> UpstreamData(v),
                        xFallback |-> FALSE, refresh |-> req.refresh]
        /\ pending' = pending \ {req}
        /\ UNCHANGED <<clock, ticks, requests>>
        /\ UNCHANGED <<hookVars, wsVars, klVars, subVars, extVars>>

\* GET after the await, the fetch threw or !response.ok: the catch branch
GetUpstreamFail ==
    \E req \in pending :
        /\ response' = FailureResponse(req)
        /\ pending' = pending \ {req}
        /\ UNCHANGED <<cache, clock, ticks, requests>>
        /\ UNCHANGED <<hookVars, wsVars, klVars, subVars, extVars>>

ApiNext ==
    \/ AdvanceClock
    \/ GetRequest
    \/ GetUpstreamOk
    \/ GetUpstreamFail

\* fetchKlines from the parsed array to its return value
FetchKlinesReturn ==
    /\ ~klDone
    /\ klOutput' = ProcessKlines(klInput)
    /\ klDone' = TRUE
    /\ UNCHANGED klInput
    /\ UNCHANGED <<hookVars, wsVars, apiVars, subVars, extVars>>

---------------------------------------------------------------------------
(* useMarketData (src/hooks/useMarketData.ts): subscription changes and fetches *)

Symbols == {"BTCUSDT", "ETHUSDT"}

Timeframes == {"1d", "1m"}

\* useState('BTCUSDT'), useState<BinanceInterval>('1d')
InitialSubscription == [symbol |-> "BTCUSDT", timeframe |-> "1d"]

\* the subscription mock bars belong to: none
NoSubscription == [symbol |-> "", timeframe |-> ""]

\* what fetchKlines(symbol, timeframe, 100) resolves with: bars of that
\* symbol and timeframe (two stand for the array)
BulkBars(symbol, timeframe) ==
    LET bar == [sub |-> [symbol |-> symbol, timeframe |-> timeframe], src |-> "upstream"]
    IN  <<bar, bar>>

\* generateMockData()
MockBars ==
    LET bar == [sub |-> NoSubscription, src |-> "mock"]
    IN  <<bar, bar>>

\* a pending binanceFetcher.fetchKlines(symbol, timeframe, 100) of fetchData
KlinesFetch(symbol, timeframe) ==
    [kind |-> "klines", symbol |-> symbol, timeframe |-> timeframe, mount |-> FALSE]

\* a pending binanceFetcher.fetch24hrTicker(symbol) of fetchPriceData; mount
\* tells that initializeData awaits it and calls fetchData afterwards
TickerFetch(symbol, mount) ==
    [kind |-> "ticker", symbol |-> symbol, timeframe |-> "", mount |-> mount]

\* the mount effect: initializeData() -> await fetchPriceData(true)
SubInit ==
    /\ subscription = InitialSubscription
    /\ subSeries = <<>>
    /\ subQuote = "none"
    /\ subInFlight = {TickerFetch(InitialSubscription.symbol, TRUE)}
    /\ subChanges = 0

\* changeTimeframe(newTimeframe): fetchData(newTimeframe, true) with the
\* symbol of the current render
ChangeTimeframe(tf) ==
    /\ subChanges < MaxChanges
    /\ tf # subscription.timeframe
    /\ subscription' = [subscription EXCEPT !.timeframe = tf]
    /\ subInFlight' = subInFlight \cup {KlinesFetch(subscription.symbol, tf)}
    /\ subChanges' = subChanges + 1
    /\ UNCHANGED <<subSeries, subQuote>>
    /\ UNCHANGED <<hookVars, wsVars, apiVars, klVars, extVars>>

\* changeSymbol(newSymbol): the states are reset, then fetchData and
\* fetchPriceData are called; both are the callbacks of the current render,
\* whose currentSymbol is still the symbol before the change
ChangeSymbol(sym) ==
    /\ subChanges < MaxChanges
    /\ sym # subscription.symbol
    /\ subscription' = [subscription EXCEPT !.symbol = sym]
    /\ subSeries' = <<>>
    /\ subQuote' = "none"
    /\ subInFlight' = subInFlight \cup {KlinesFetch(subscription.symbol, subscription.timeframe),
                                         TickerFetch(subscription.symbol, FALSE)}
    /\ subChanges' = subChanges + 1
    /\ UNCHANGED <<hookVars, wsVars, apiVars, klVars, extVars>>

\* refreshData(): fetchPriceData(true), fetchData(undefined, true)
RefreshData ==
    /\ subChanges < MaxChanges
    /\ subInFlight' = subInFlight \cup {KlinesFetch(subscription.symbol, subscription.timeframe),
                                         TickerFetch(subscription.symbol, FALSE)}
    /\ subChanges' = subChanges + 1
    /\ UNCHANGED <<subscription, subSeries, subQuote>>
    /\ UNCHANGED <<hookVars, wsVars, apiVars, klVars, extVars>>

\* fetchKlines of the pending call f resolves: fetchData, try branch,
\* setCandleData(candles) whatever the subscription is by now
KlinesResolve(f) ==
    /\ f \in subInFlight /\ f.kind = "klines"
    /\ subSeries' = BulkBars(f.symbol, f.timeframe)
    /\ subInFlight' = subInFlight \ {f}
    /\ UNCHANGED <<subscription, subQuote, subChanges>>
    /\ UNCHANGED <<hookVars, wsVars, apiVars, klVars, extVars>>

\* fetchKlines of the pending call f rejects: fetchData, catch branch
KlinesReject(f) ==
    /\ f \in subInFlight /\ f.kind = "klines"
    /\ subSeries' = MockBars
    /\ subInFlight' = subInFlight \ {f}
    /\ UNCHANGED <<subscription, subQuote, subChanges>>
    /\ UNCHANGED <<hookVars, wsVars, apiVars, klVars, extVars>>

\* what is awaited once the ticker call f is settled: for the mount call,
\* initializeData goes on to fetchData(undefined, true) of the first render
AfterTicker(f) ==
    (subInFlight \ {f}) \cup
    (IF f.mount
     THEN {KlinesFetch(InitialSubscription.symbol, InitialSubscription.timeframe)}
     ELSE {})

\* fetch24hrTicker of the pending call f resolves: setTickerData, setCurrentPrice
TickerResolve(f) ==
    /\ f \in subInFlight /\ f.kind = "ticker"
    /\ subQuote' = f.symbol
    /\ subInFlight' = AfterTicker(f)
    /\ UNCHANGED <<subscription, subSeries, subChanges>>
    /\ UNCHANGED <<hookVars, wsVars, apiVars, klVars, extVars>>

\* fetch24hrTicker of the pending call f rejects: setCurrentPrice(95000)
TickerReject(f) ==
    /\ f \in subInFlight /\ f.kind = "ticker"
    /\ subQuote' = "fallback"
    /\ subInFlight' = AfterTicker(f)
    /\ UNCHANGED <<subscription, subSeries, subChanges>>
    /\ UNCHANGED <<hookVars, wsVars, apiVars, klVars, extVars>>

SubNext ==
    \/ \E tf \in Timeframes : ChangeTimeframe(tf)
    \/ \E sym \in Symbols : ChangeSymbol(sym)
    \/ RefreshData
    \/ \E f \in subInFlight : KlinesResolve(f)
    \/ \E f \in subInFlight : KlinesReject(f)
    \/ \E f \in subInFlight : TickerResolve(f)
    \/ \E f \in subInFlight : TickerReject(f)

---------------------------------------------------------------------------
(* timeoutFetch as binanceFetch calls it (src/lib/timeout-fetch.ts) *)

\* how one attempt can end: a response with response.ok, a response without,
\* fetch() rejecting on its own, fetch() rejecting because the timer aborted it
AttemptOutcomes == {"ok", "notok", "error", "abort"}

\* the steps in which the model lets time pass during an attempt
TfStepMs == BinanceTimeoutMs \div 3

\* (mutant) only the last attempt's response is returned
ReturnsResponse_LastOnly(ok, attempt) == attempt = BinanceRetries

\* if (response.ok || attempt === retries) return response
ReturnsResponse(ok, attempt) == ok \/ attempt = BinanceRetries

\* const delay = retryDelay * Math.pow(2, attempt)
RetryDelay(attempt) == BinanceRetryDelayMs * 2^attempt

\* binanceFetch(url): attempt 0 calls fetch()
FetchInit ==
    /\ tfAttempt = 0
    /\ tfPhase = "fetching"
    /\ tfElapsed = 0
    /\ tfOutcomes = <<>>

\* time passes while fetch() is pending and the abort timer has not fired
TfTick ==
    /\ tfPhase = "fetching"
    /\ tfElapsed < BinanceTimeoutMs
    /\ tfElapsed' = tfElapsed + TfStepMs
    /\ UNCHANGED <<tfAttempt, tfPhase, tfOutcomes>>
    /\ UNCHANGED <<hookVars, wsVars, apiVars, klVars, subVars, errVars, quoteVars, shVars>>

\* fetch() resolves with a response before the timer fires
TfResponse(ok) ==
    /\ tfPhase = "fetching"
    /\ tfElapsed < BinanceTimeoutMs
    /\ tfOutcomes' = Append(tfOutcomes, IF ok THEN "ok" ELSE "notok")
    /\ IF ReturnsResponse(ok, tfAttempt)
       THEN tfPhase' = "returned" /\ UNCHANGED <<tfAttempt, tfElapsed>>
       ELSE tfAttempt' = tfAttempt + 1 /\ tfElapsed' = 0 /\ UNCHANGED tfPhase
    /\ UNCHANGED <<hookVars, wsVars, apiVars, klVars, subVars, errVars, quoteVars, shVars>>

\* the catch branch: throw on the last attempt, else wait before the retry
TfCatch(outcome) ==
    /\ tfOutcomes' = Append(tfOutcomes, outcome)
    /\ IF tfAttempt = BinanceRetries
       THEN tfPhase' = "thrown" /\ UNCHANGED <<tfAttempt, tfElapsed>>
       ELSE tfPhase' = "delay" /\ tfElapsed' = RetryDelay(tfAttempt) /\ UNCHANGED tfAttempt
    /\ UNCHANGED <<hookVars, wsVars, apiVars, klVars, subVars, errVars, quoteVars, shVars>>

\* fetch() rejects before the timer fires (network error)
TfError ==
    /\ tfPhase = "fetching"
    /\ tfElapsed < BinanceTimeoutMs
    /\ TfCatch("error")

\* the timer fires: controller.abort(), fetch() rejects
TfAbort ==
    /\ tfPhase = "fetching"
    /\ tfElapsed = BinanceTimeoutMs
    /\ TfCatch("abort")

\* the delay before the retry is over: the next iteration calls fetch()
TfRetry ==
    /\ tfPhase = "delay"
    /\ tfAttempt' = tfAttempt + 1
    /\ tfPhase' = "fetching"
    /\ tfElapsed' = 0
    /\ UNCHANGED tfOutcomes
    /\ UNCHANGED <<hookVars, wsVars, apiVars, klVars, subVars, errVars, quoteVars, shVars>>

TfNext ==
    \/ TfTick
    \/ \E ok \in BOOLEAN : TfResponse(ok)
    \/ TfError
    \/ TfAbort
    \/ TfRetry

---------------------------------------------------------------------------
(* useMarketData: the transient WebSocket error (handleWebSocketError) *)

NoError == [n |-> 0, at |-> -1]

\* the steps in which the model lets time pass
ErrStepMs == ErrorClearMs \div 4

\* the time up to which the model lets errors be raised
ErrHorizon == MaxErrors * ErrorClearMs

ErrInit ==
    /\ errNow = 0
    /\ wsError = NoError
    /\ errTimers = {}
    /\ errRaised = 0

\* handleWebSocketError(error): setWsError(error) and a timer of 10 s
HandleWebSocketError ==
    /\ errRaised < MaxErrors
    /\ errRaised' = errRaised + 1
    /\ wsError' = [n |-> errRaised + 1, at |-> errNow]
    /\ errTimers' = errTimers \cup {errNow + ErrorClearMs}
    /\ UNCHANGED errNow
    /\ UNCHANGED <<hookVars, wsVars, apiVars, klVars, subVars, tfVars, quoteVars, shVars>>

\* a timer is due: setWsError(null)
ErrTimerFire ==
    /\ errNow \in errTimers
    /\ wsError' = NoError
    /\ errTimers' = errTimers \ {errNow}
    /\ UNCHANGED <<errNow, errRaised>>
    /\ UNCHANGED <<hookVars, wsVars, apiVars, klVars, subVars, tfVars, quoteVars, shVars>>

\* time passes; a timer that is due fires first
ErrTick ==
    /\ errNow \notin errTimers
    /\ errTimers # {} \/ (errRaised < MaxErrors /\ errNow < ErrHorizon)
    /\ errNow' = errNow + ErrStepMs
    /\ UNCHANGED <<wsError, errTimers, errRaised>>
    /\ UNCHANGED <<hookVars, wsVars, apiVars, klVars, subVars, tfVars, quoteVars, shVars>>

ErrNext ==
    \/ HandleWebSocketError
    \/ ErrTimerFire
    \/ ErrTick

---------------------------------------------------------------------------
(* useMarketData: the quote (fetchPriceData, handleKlineUpdate, handleTickerUpdate) *)

\* the 24hr tickers fetch24hrTicker may resolve with
SnapshotTickers ==
    { [lastPrice |-> l, priceChange |-> c, priceChangePercent |-> pc] :
        l \in PriceStrings, c \in {"1.50", "-2.25"}, pc \in {"1.50", "0.00"} }

\* useState(null), useState(0), useState(0)
QuoteInit ==
    /\ quote = [price |-> -1, change |-> 0, changePercent |-> 0]
    /\ quoteFetches = 0
    /\ quoteFrames = 0

\* fetchPriceData, try branch: the ticker's three fields are parsed and set
QuoteSnapshot ==
    /\ quoteFetches < MaxQuoteFetches
    /\ \E t \in SnapshotTickers :
          quote' = [price |-> ParseFloat(t.lastPrice),
                    change |-> ParseFloat(t.priceChange),
                    changePercent |-> ParseFloat(t.priceChangePercent)]
    /\ quoteFetches' = quoteFetches + 1
    /\ UNCHANGED quoteFrames
    /\ UNCHANGED <<hookVars, wsVars, apiVars, klVars, subVars, tfVars, errVars, shVars>>

\* fetchPriceData, catch branch: setCurrentPrice(95000), setPriceChange(0), setPriceChangePercent(0)
QuoteSnapshotFail ==
    /\ quoteFetches < MaxQuoteFetches
    /\ quote' = [price |-> FallbackPrice * 100, change |-> 0, changePercent |-> 0]
    /\ quoteFetches' = quoteFetches + 1
    /\ UNCHANGED quoteFrames
    /\ UNCHANGED <<hookVars, wsVars, apiVars, klVars, subVars, tfVars, errVars, shVars>>

\* the tickerData ws.onmessage builds from a kline frame: the close price of
\* the bar and the placeholders '0.00' for P and p
SimulatedTicker(frame) == [c |-> frame.c, P |-> "0.00", p |-> "0.00"]

\* handleKlineUpdate: setCurrentPrice(currentCandle.close)
HandleKlinePrice(q, frame) == [q EXCEPT !.price = ParseFloat(frame.c)]

\* handleTickerUpdate: setCurrentPrice, setPriceChange, setPriceChangePercent
HandleTickerUpdate(q, data) ==
    [price |-> ParseFloat(data.c), change |-> ParseFloat(data.p),
     changePercent |-> ParseFloat(data.P)]

\* the quote after ws.onmessage has handled the frame: the callbacks that
\* OnMessage invokes, applied in its order
QuoteAfterFrame(q, frame) ==
    LET S  == OnMessage(FreshManager(frame.s), frame)
        q1 == IF S.klineCalled /\ frame.hasK THEN HandleKlinePrice(q, frame) ELSE q
    IN  IF S.tickerCalled THEN HandleTickerUpdate(q1, SimulatedTicker(frame)) ELSE q1

\* the socket delivers a frame of the stream
QuoteFrame ==
    /\ quoteFrames < MaxQuoteFrames
    /\ \E frame \in StreamFrames("btcusdt@kline_1m") :
          quote' = QuoteAfterFrame(quote, frame)
    /\ quoteFrames' = quoteFrames + 1
    /\ UNCHANGED quoteFetches
    /\ UNCHANGED <<hookVars, wsVars, apiVars, klVars, subVars, tfVars, errVars, shVars>>

QuoteNext ==
    \/ QuoteSnapshot
    \/ QuoteSnapshotFail
    \/ QuoteFrame

---------------------------------------------------------------------------
(* The shape of a bulk payload, from the upstream through the route's cache
   and the fetcher's validation to the hook *)

\* the endpoints the hook uses
BulkEndpoints == {"klines", "ticker"}

\* the JSON an upstream 200 response may carry.  klines: "rows" an array of
\* bar tuples, "object" a value that is no array, "badrows" an array whose
\* elements are not bar tuples (numbers, strings, objects).  ticker: "ticker"
\* with all fields strings, "noPrice" without a string lastPrice, "noChange"
\* with symbol and lastPrice but without priceChange / priceChangePercent
Shapes(endpoint) ==
    IF endpoint = "klines" THEN {"rows", "object", "badrows"}
    ELSE {"ticker", "noPrice", "noChange"}

WellTyped(shape) == shape \in {"rows", "ticker"}

\* fetchKlines: if (!Array.isArray(data)) throw; the map over the elements
\* does not throw on elements that are not tuples (it yields NaN fields)
FetchKlinesAccepts(shape) == shape \in {"rows", "badrows"}

\* fetch24hrTicker: if (!data || typeof data.symbol !== 'string' ||
\* typeof data.lastPrice !== 'string') throw
FetchTickerAccepts(shape) == shape \in {"ticker", "noChange"}

\* the fetcher returns the payload of this shape to its caller
FetcherAccepts(endpoint, shape) ==
    IF endpoint = "klines" THEN FetchKlinesAccepts(shape) ELSE FetchTickerAccepts(shape)

ShNoResponse == [kind |-> "none", endpoint |-> "", shape |-> ""]

ShapeInit ==
    /\ shCache = <<>>
    /\ shResponse = ShNoResponse
    /\ shOutcome = "none"
    /\ shSeries = "none"
    /\ shQuote = "none"
    /\ shRequests = 0

\* GET of the route for a request of the fetcher, the upstream answering 200
\* with a payload of some shape: a fresh entry is served, else the payload is
\* stored as it came and sent
ShRouteGet(endpoint) ==
    LET key == CacheKey(endpoint, "BTCUSDT")
        got == GetCachedData(shCache, key, 0)
    IN  /\ shRequests < MaxShapeRequests
        /\ shResponse.kind = "none"
        /\ shRequests' = shRequests + 1
        /\ IF got.data # NoData
           THEN /\ shCache' = got.cache
                /\ shResponse' = [kind |-> "hit", endpoint |-> endpoint, shape |-> got.data.v]
           ELSE \E shape \in Shapes(endpoint) :
                   /\ shCache' = SetCacheData(got.cache, key, UpstreamData(shape),
                                              CacheTtl(endpoint), 0)
                   /\ shResponse' = [kind |-> "miss", endpoint |-> endpoint, shape |-> shape]
        /\ shOutcome' = "none"
        /\ UNCHANGED <<shSeries, shQuote>>
        /\ UNCHANGED <<hookVars, wsVars, apiVars, klVars, subVars, tfVars, errVars, quoteVars>>

\* fetchKlines / fetch24hrTicker read the response and return or throw;
\* fetchData / fetchPriceData set the state from what they get (mock bars,
\* the fallback price when the fetcher threw)
ShFetcherSettles ==
    LET ok == FetcherAccepts(shResponse.endpoint, shResponse.shape)
    IN  /\ shResponse.kind # "none"
        /\ shOutcome' = IF ok THEN "returned" ELSE "threw"
        /\ IF shResponse.endpoint = "klines"
           THEN /\ shSeries' = IF ok THEN shResponse.shape ELSE "mock"
                /\ UNCHANGED shQuote
           ELSE /\ shQuote' = IF ok THEN shResponse.shape ELSE "fallback"
                /\ UNCHANGED shSeries
        /\ shResponse' = ShNoResponse
        /\ UNCHANGED <<shCache, shRequests>>
        /\ UNCHANGED <<hookVars, wsVars, apiVars, klVars, subVars, tfVars, errVars, quoteVars>>

ShapeNext ==
    \/ \E endpoint \in BulkEndpoints : ShRouteGet(endpoint)
    \/ ShFetcherSettles

\* the initial state of the components added to hook and manager
RestInit == ApiInit /\ KlinesIdle /\ SubInit /\ FetchInit /\ ErrInit /\ QuoteInit /\ ShapeInit

\* the hook with its stream manager left as constructed
SeriesInit == HookInit /\ WsInit /\ RestInit

SpecSeries == SeriesInit /\ [][HookNext]_vars

\* the stream manager driven by its consumer, its timers and its sockets
Init == HookInit /\ WsInit /\ RestInit

\* the route serving requests over time
SpecApi == Init /\ [][ApiNext]_vars

\* one call of fetchKlines on every array of rows within the bound
\* fetchKlines about to process an upstream reply, everything else idle
FetchKlinesInit == HookInit /\ WsInit /\ ApiInit /\ SubInit /\ FetchInit /\ ErrInit /\ QuoteInit /\ ShapeInit /\ KlinesInit

SpecKlines == FetchKlinesInit /\ [][FetchKlinesReturn]_vars

\* the manager of a mounted hook once its first connection is established:
\* connect() of the WebSocket effect has run and the socket has opened
MountedOpen ==
    LET S1 == Connect(FreshManager("btcusdt@kline_1m"), FALSE, 0)
    IN  OnOpen([S1 EXCEPT !.sockets[S1.ws].readyState = "OPEN"])

\* the manager from that state on, with the consumer's calls, on a network
\* that is up: sockets open in time and are closed by the manager only
SwitchNext ==
    \/ ConnectCall
    \/ DisconnectCall
    \/ ChangeStreamCall
    \/ ReconnectTimerFire
    \/ StreamTimerFire
    \/ HeartbeatTick
    \/ \E id \in DOMAIN sockets : SocketOpen(id)
    \/ \E id \in DOMAIN sockets : SocketMessage(id)
    \/ \E id \in DOMAIN sockets : SocketClosed(id)

SwitchInit == HookInit /\ Assign(MountedOpen) /\ RestInit

SpecSwitch == SwitchInit /\ [][SwitchNext]_vars

\* bulk requests whose upstream answers are of any shape
SpecShape == Init /\ [][ShapeNext]_vars

\* the quote of the hook under snapshot fetches and stream frames
SpecQuote == Init /\ [][QuoteNext]_vars

\* the error notice of the hook; time passes and timers that are due fire
SpecErr == Init /\ [][ErrNext]_vars /\ WF_vars(ErrTimerFire) /\ WF_vars(ErrTick)

\* one call of binanceFetch; timers fire and pending promises settle
SpecFetch == Init /\ [][TfNext]_vars /\ WF_vars(TfNext)

\* the hook through subscription changes, refreshes and the fetches they start
SpecSub == Init /\ [][SubNext]_vars

Next == WsNext

Spec == Init /\ [][Next]_vars

\* The manager left to itself: the hook connects once on mount and makes no
\* other call.  Timers that are pending fire, and a close() the manager issued
\* completes; whether a socket opens, breaks or stays silent is up to the
\* network.
MountConnect == calls = 0 /\ ConnectCall

AutoNext ==
    \/ MountConnect
    \/ ConnectionTimeoutFire
    \/ ReconnectTimerFire
    \/ HeartbeatTick
    \/ \E id \in DOMAIN sockets : SocketOpen(id)
    \/ \E id \in DOMAIN sockets : SocketMessage(id)
    \/ \E id \in DOMAIN sockets : SocketFail(id)
    \/ \E id \in DOMAIN sockets : SocketServerClose(id)
    \/ \E id \in DOMAIN sockets : SocketClosed(id)

SpecAuto ==
    /\ Init
    /\ [][AutoNext]_vars
    /\ WF_vars(MountConnect)
    /\ WF_vars(ConnectionTimeoutFire)
    /\ WF_vars(ReconnectTimerFire)
    /\ WF_vars(\E id \in DOMAIN sockets : SocketClosed(id))

---------------------------------------------------------------------------
(* Properties of the candle series (checked under SpecSeries) *)

StrictlyIncreasing(s) == \A i \in 1..(Len(s) - 1) : s[i].time < s[i + 1].time

\* a kline frame was handled in this step
KlineStep == klineCount' = klineCount + 1

\* C1 (as claimed): after any sequence of live bar updates, in any arrival
\* order, the candle series is strictly increasing in timestamp (hence holds no
\* two bars with the same timestamp).
C1_SeriesStrictlyIncreasing == StrictlyIncreasing(candleData)

C3_ReplaceOrAppend ==
    [][ (KlineStep /\ Len(candleData) > 0) =>
          LET T == Last(candleData).time
              n == Len(candleData)
              b == lastKline'
          IN  /\ b.time = T =>
                    /\ Len(candleData') = n
                    /\ \A i \in 1..(n - 1) : candleData'[i] = candleData[i]
                    /\ candleData'[n] = b
              /\ b.time > T =>
                    IF n + 1 > MaxCandles
                    THEN candleData' = Append(Tail(candleData), b)
                    ELSE candleData' = Append(candleData, b) ]_vars

\* C3 witness: the last bulk bar was replaced by a live update, then a newer
\* live bar was appended and the oldest bar dropped
C3_Witness ==
    /\ Len(candleData) = MaxCandles
    /\ candleData[MaxCandles].src = "stream"
    /\ candleData[MaxCandles - 1].src = "stream"
    /\ candleData[MaxCandles - 1].time = NowTick * 60
    /\ candleData[MaxCandles].time = (NowTick + 1) * 60
    /\ candleData[1].time = (NowTick - 98) * 60

---------------------------------------------------------------------------
(* Properties of the stream connection manager *)

\* a step that opened a new socket: this.ws refers to another socket than before
NewSocketCreated == ws' # 0 /\ ws' # ws

\* a step taken without a call of the consumer
NoCall == calls' = calls

\* an event of socket id is delivered in this step
SocketEnds(id) == SocketFail(id) \/ SocketServerClose(id) \/ SocketClosed(id)

SocketEvent(id) == SocketOpen(id) \/ SocketEnds(id)

\* C4 (as claimed): connect() called while the manager's socket is CONNECTING
\* or OPEN creates no socket, leaves this.ws alone and starts no
\* connection-timeout or heartbeat timer.
C4_ConnectIsNoOpWhenLive ==
    [][ (ConnectCall /\ ReadyState(WsState) \in {"CONNECTING", "OPEN"})
        => /\ sockets' = sockets
           /\ ws' = ws
           /\ connectionTimeout' = connectionTimeout
           /\ pingInterval' = pingInterval ]_vars

\* C5 (as claimed): once disconnect() was called, no socket is opened until
\* the consumer calls connect() or changeStream(). The connect() that an
\* earlier changeStream() still has pending is left aside: it belongs to an
\* explicit call.
C5_NoConnectAfterDisconnect ==
    [][ (manualOff /\ NoCall /\ streamTimers = 0) => ~NewSocketCreated ]_vars

\* C6 (as claimed): disconnect() and changeStream() leave no connection-timeout,
\* heartbeat or scheduled-reconnect timer pending, and an event of a socket the
\* manager has replaced by another changes nothing of the manager's state.
C6_SupersededNeverActs ==
    [][ /\ (DisconnectCall \/ ChangeStreamCall)
            => (reconnectTimers' = 0 /\ ~connectionTimeout' /\ ~pingInterval')
        /\ \A id \in DOMAIN sockets :
              (ws # 0 /\ id # ws /\ SocketEvent(id))
              => UNCHANGED <<ws, isConnecting, reconnectAttempts, currentUrlIndex,
                             connectionTimeout, pingInterval, reconnectTimers,
                             connected, lastError>> ]_vars

\* C7 (as claimed): the terminal error 'Max reconnection attempts reached' is
\* reported when a failure finds the retry counter at 5, no reconnect is
\* scheduled then, and from then on no socket is opened and no reconnect is
\* scheduled until the consumer calls connect() or changeStream().
C7_TerminalAfterBudget ==
    [][ /\ (exhausted' /\ ~exhausted)
            => /\ lastError' = "Max reconnection attempts reached"
               /\ reconnectAttempts = MaxReconnectAttempts
               /\ reconnectTimers' <= reconnectTimers
        /\ (exhausted /\ NoCall)
            => (~NewSocketCreated /\ reconnectTimers' <= reconnectTimers) ]_vars

\* C8 (as claimed): whenever a socket that disconnect() did not close ends
\* (close, or error and close), the heartbeat is stopped, the connection
\* callback gets false and, while the retry counter is below 5, exactly one
\* reconnect is scheduled.
C8_FailureSchedulesOneReconnect ==
    [][ \A id \in DOMAIN sockets :
          (~sockets[id].manual /\ SocketEnds(id))
          => /\ ~pingInterval'
             /\ connected' = "false"
             /\ reconnectAttempts < MaxReconnectAttempts
                   => reconnectTimers' = reconnectTimers + 1 ]_vars

\* the manager is back: this.ws is OPEN, retry counter 0, endpoint index 0
Recovered == IsConnected(WsState) /\ reconnectAttempts = 0 /\ currentUrlIndex = 0

\* C9: with no call of the consumer, after an abnormal drop of the open
\* connection the manager eventually is OPEN again with retry counter 0 and
\* endpoint index 0, unless every attempt of the retry budget fails.
C9_RecoversOrExhausts == dropped ~> (Recovered \/ exhausted)

\* C9 witness: the open connection dropped and the recovery is at its third
\* attempt, on the second endpoint
C9_Witness ==
    /\ dropped
    /\ reconnectAttempts = 3
    /\ currentUrlIndex = 1
    /\ ReadyState(WsState) = "CONNECTING"

\* the delays before jitter of attempts 1..5
BackoffTable == <<1000, 2000, 4000, 8000, 16000>>

\* C10: a reconnect scheduled for attempt a (1..5) waits
\* min(1000 * 2^(a-1), 30000) = 1000, 2000, 4000, 8000, 16000 ms plus a jitter
\* in [0, 1000) ms, and the base delay is capped at 30000 ms beyond that.
C10_BackoffDelay ==
    /\ lastDelay # -1 =>
          /\ reconnectAttempts \in 1..MaxReconnectAttempts
          /\ lastDelay - BackoffTable[reconnectAttempts] \in 0..(JitterRangeMs - 1)
    /\ \A a \in (MaxReconnectAttempts + 1)..(MaxReconnectAttempts + 3) :
          BaseDelay(a) = BackoffCapMs

\* C10 witness: the fifth reconnect was scheduled with the largest jitter
C10_Witness == reconnectAttempts = 5 /\ lastDelay = 16999

---------------------------------------------------------------------------
(* Endpoint rotation and the terminal state *)

\* the manager is in its terminal Closed state: no usable socket, nothing
\* scheduled, the terminal error reported
TerminalClosed ==
    /\ exhausted
    /\ ReadyState(WsState) \notin {"CONNECTING", "OPEN"}
    /\ reconnectTimers = 0

\* C11 (as claimed): every failed connection attempt is reported through the
\* error callback, and when the fifth attempt in a row fails the manager is
\* in the terminal Closed state and the endpoint index has advanced through
\* all three endpoints.
C11_FiveFailuresTerminal ==
    [][ (failedAttempts' = failedAttempts + 1)
        => /\ lastError' # ""
           /\ (failedAttempts' = MaxReconnectAttempts)
                 => (TerminalClosed' /\ rotations' >= NumUrls) ]_vars

---------------------------------------------------------------------------
(* Inbound frames *)

\* the frame whose text is not JSON
MalformedFrame(st) == [json |-> FALSE, e |-> "", s |-> st, hasK |-> FALSE, c |-> ""]

\* socket id is OPEN and this step is the delivery of the malformed frame to it
MalformedDelivered(id) ==
    /\ sockets[id].readyState = "OPEN"
    /\ Commit(OnMessage(Begin, MalformedFrame(sockets[id].stream)))

\* C12: a frame that fails to parse leaves every socket as it is, schedules
\* no reconnect, leaves the retry counter, the endpoint index, the timers and
\* the price alone, and reaches neither the kline nor the ticker callback.
C12_MalformedFrameDropped ==
    [][ \A id \in DOMAIN sockets :
          MalformedDelivered(id)
          => /\ UNCHANGED <<sockets, ws, isConnecting, reconnectAttempts, currentUrlIndex,
                            connectionTimeout, pingInterval, reconnectTimers,
                            streamTimers, connected, currentPrice>>
             /\ ~klineCalled' /\ ~tickerCalled'
             /\ lastDelay' = -1 ]_vars

\* C12 witness: the open connection has just dropped a malformed frame, after
\* a price had been received
C12_Witness ==
    /\ lastError = "Message parsing error"
    /\ ~klineCalled
    /\ IsConnected(WsState)
    /\ currentPrice = 10150

---------------------------------------------------------------------------
(* The route: freshness, fallback, refresh *)

\* this step is the cache check of a GET for endpoint e
CacheChecked(e) == response'.kind \in {"hit", "pending"} /\ response'.endpoint = e

\* C13 (as claimed): a GET finding an entry for its key is served that entry's
\* payload while now - storedAt < ttl; from now = storedAt + ttl on (boundary
\* included) it is not served from the cache and the entry is evicted.
C13_CacheTtl ==
    [][ \A e \in Endpoints :
          LET key == CacheKey(e, "BTCUSDT")
          IN  (CacheChecked(e) /\ key \in DOMAIN cache)
              => /\ (clock - cache[key].timestamp < cache[key].ttl)
                      => (response'.kind = "hit" /\ response'.data = cache[key].data)
                 /\ (clock - cache[key].timestamp >= cache[key].ttl)
                      => (response'.kind = "pending" /\ key \notin DOMAIN cache') ]_vars

\* C14: a request whose upstream fetch fails is answered, for ticker and
\* price, with status 200, the static fallback payload and X-Fallback: true,
\* which the fetcher returns; for klines with status 500 and no payload, which
\* makes fetchKlines throw.
C14_FallbackForQuotesOnly ==
    [][ (response'.kind \in {"fallback", "error"})
        => IF response'.endpoint \in {"ticker", "price"}
           THEN /\ response'.kind = "fallback"
                /\ response'.xFallback
                /\ response'.data = FallbackData(response'.endpoint, response'.symbol)
                /\ FetcherResult(response') = [throws |-> FALSE, data |-> response'.data]
                /\ response'.data # NoData
           ELSE /\ response'.kind = "error"
                /\ ~response'.xFallback
                /\ FetcherResult(response') = [throws |-> TRUE, data |-> NoData] ]_vars

\* C14 witness: the upstream fetch for klines failed with nothing cached for it
C14_Witness ==
    /\ response.kind = "error"
    /\ response.endpoint = "klines"
    /\ CacheKey("klines", "BTCUSDT") \notin DOMAIN cache

\* C20 (as claimed): a request issued by refreshData() (fetchData and
\* fetchPriceData with force = true) always goes to the upstream: it is never
\* answered from an entry the cache already held.
C20_RefreshBypassesCache ==
    [][ response'.refresh => response'.kind # "hit" ]_vars

---------------------------------------------------------------------------
(* Fabricated bars *)

\* C15 (as claimed): every bar of the candle series was delivered by the
\* upstream, in a bulk response or by the stream; none is a synthetic
\* substitute built after a failed fetch.
C15_NoFabricatedBars ==
    \A i \in 1..Len(candleData) : candleData[i].src \in {"upstream", "stream"}

---------------------------------------------------------------------------
(* fetchKlines: order and duplicates *)

\* the index of the first element of s with time t
FirstAt(s, t) == CHOOSE j \in 1..Len(s) : s[j].time = t /\ \A k \in 1..(j - 1) : s[k].time # t

\* C19: whatever the order and the repetitions of the upstream array,
\* fetchKlines returns its bars strictly ascending by timestamp, one bar for
\* each timestamp of the input, namely the first bar of the input with it.
C19_SortedFirstOccurrence ==
    klDone =>
      LET mapped == MapRows(klInput)
      IN  /\ StrictlyIncreasing(klOutput)
          /\ {klOutput[i].time : i \in 1..Len(klOutput)} = {mapped[i].time : i \in 1..Len(mapped)}
          /\ \A i \in 1..Len(klOutput) :
                klOutput[i] = mapped[FirstAt(mapped, klOutput[i].time)]

\* C19 witness: an array in descending order that repeats a timestamp with
\* another price came back sorted, with the first of the two bars
C19_Witness ==
    /\ klDone
    /\ klInput = <<Row(NowTick, "101.50"), Row(NowTick - 1, "100.00"), Row(NowTick, "100.00")>>
    /\ Len(klOutput) = 2
    /\ klOutput[2].close = 10150

---------------------------------------------------------------------------
(* Subscription changes *)

\* the subscription the pending call f was made for
FetchedFor(f) == [symbol |-> f.symbol, timeframe |-> f.timeframe]

\* C16 (as claimed): a bulk fetch that resolves for a subscription other than
\* the active one changes neither the candle series nor the quote.
C16_StaleFetchDiscarded ==
    [][ \A f \in subInFlight :
          /\ (KlinesResolve(f) /\ FetchedFor(f) # subscription)
                => UNCHANGED <<subSeries, subQuote>>
          /\ (TickerResolve(f) /\ f.symbol # subscription.symbol)
                => UNCHANGED <<subSeries, subQuote>> ]_vars

\* C17 (as claimed): a frame delivered by a socket that is subscribed to a
\* stream other than the manager's current one reaches no callback and leaves
\* the current price as it is.
C17_OldStreamFramesDiscarded ==
    [][ \A id \in DOMAIN sockets :
          (SocketMessage(id) /\ sockets[id].stream # stream)
          => (UNCHANGED currentPrice /\ ~klineCalled' /\ ~tickerCalled') ]_vars

\* C18 (as claimed): a change of symbol or of timeframe leaves the candle
\* series empty.
C18_ChangeEmptiesSeries ==
    [][ subscription' # subscription => subSeries' = <<>> ]_vars

---------------------------------------------------------------------------
(* Endpoint rotation *)

\* C24 (as claimed): the endpoint index advances, by one modulo the number of
\* endpoints, only in the step in which the second attempt on the current
\* endpoint fails, and it always lies within 0..2.
C24_RotationAfterSecondFailure ==
    [][ /\ currentUrlIndex' \in 0..(NumUrls - 1)
        /\ (rotations' = rotations + 1)
              => /\ currentUrlIndex' = (currentUrlIndex + 1) % NumUrls
                 /\ endpointFailures + (failedAttempts' - failedAttempts) = 2 ]_vars

---------------------------------------------------------------------------
(* What the freshness cache holds *)

\* the entry has reached its time to live at time now (expiry as the cache
\* contract states it, boundary included)
Expired(entry, now) == now - entry.timestamp >= entry.ttl

---------------------------------------------------------------------------
(* One connection at a time *)

\* the sockets that are connecting or open
LiveSockets == {id \in DOMAIN sockets : sockets[id].readyState \in {"CONNECTING", "OPEN"}}

\* C27 (as claimed): at most one socket of the manager is connecting or open.
C27_SingleLiveSocket == Cardinality(LiveSockets) <= 1

---------------------------------------------------------------------------
(* Heartbeat and connected flag *)

\* C28 (as claimed): a heartbeat timer runs whenever the manager's current
\* socket is open (pingInterval holds at most one timer: startHeartbeat
\* clears the one it finds).
C28_HeartbeatWhileOpen == IsConnected(WsState) => pingInterval

\* no socket has an event outstanding: none is connecting or closing
SocketsQuiet == \A id \in DOMAIN sockets : sockets[id].readyState \in {"OPEN", "CLOSED"}

\* C29 (as claimed): once the socket events are all delivered, the last value
\* given to the connection callback is true exactly if the current socket
\* is open.
C29_ConnectedFlagAgrees ==
    SocketsQuiet => ((connected = "true") <=> IsConnected(WsState))

---------------------------------------------------------------------------
(* Live updates before the bulk load *)

\* no fetchData() call has completed yet: the series is not primed
BulkLoadPending == fetchesInFlight = fetchesStarted

\* C25 (as claimed): a live update handled while the bulk load has not
\* completed is not written to the series.
C25_NoLiveUpdateBeforeBulkLoad ==
    [][ (BulkLoadPending /\ klineCount' = klineCount + 1)
        => candleData' = candleData ]_vars

---------------------------------------------------------------------------
(* Bounded retries of the bulk fetch *)

\* the call has returned a response or thrown
TfDone == tfPhase \in {"returned", "thrown"}

\* at most retries + 1 attempts, none longer than the timeout, none after an
\* ok response; a call that is over returned a response or threw an error
TfBounded ==
    /\ Len(tfOutcomes) <= BinanceRetries + 1
    /\ tfAttempt <= BinanceRetries
    /\ tfPhase = "fetching" => tfElapsed <= BinanceTimeoutMs
    /\ \A i \in 1..Len(tfOutcomes) : tfOutcomes[i] = "ok" => i = Len(tfOutcomes)
    /\ \A i \in 1..Len(tfOutcomes) : tfOutcomes[i] = "ok" => tfPhase = "returned"
    /\ tfPhase = "returned" => tfOutcomes[Len(tfOutcomes)] \in {"ok", "notok"}
    /\ tfPhase = "thrown" => tfOutcomes[Len(tfOutcomes)] \in {"error", "abort"}

\* C23: a call of binanceFetch makes at most 3 attempts of at most 15 s each,
\* makes none after an ok response, and ends: it returns a response or throws.
C23_FetchTerminates == []TfBounded /\ <>TfDone

\* the call threw after three attempts, one of which the timer aborted
C23_Witness ==
    /\ tfPhase = "thrown"
    /\ Len(tfOutcomes) = BinanceRetries + 1
    /\ \E i \in 1..Len(tfOutcomes) : tfOutcomes[i] = "abort"

---------------------------------------------------------------------------
(* The transient error notice *)

\* C21 (as claimed): an error that is shown is cleared in the end without
\* any call of the consumer, and it is never cleared before it has been
\* shown for 10 s.
C21_ErrorShownTenSeconds ==
    /\ [][ (wsError # NoError /\ wsError' = NoError)
             => errNow - wsError.at >= ErrorClearMs ]_vars
    /\ (wsError # NoError) ~> (wsError = NoError)

---------------------------------------------------------------------------
(* Quote fields under live updates *)

\* C26 (as claimed): a stream frame, which carries no price-change fields,
\* leaves change and changePercent of the quote as they were.
C26_FrameKeepsPriceChange ==
    [][ (quoteFrames' = quoteFrames + 1)
        => /\ quote'.change = quote.change
           /\ quote'.changePercent = quote.changePercent ]_vars

---------------------------------------------------------------------------
(* Malformed bulk payloads *)

\* C22 (as claimed): a payload that is not well-typed is never served from
\* the route's cache, and never enters the candle series or the quote.
C22_MalformedIsFailure ==
    /\ shResponse.kind = "hit" => WellTyped(shResponse.shape)
    /\ shSeries \in {"none", "mock", "rows"}
    /\ shQuote \in {"none", "fallback", "ticker"}

=============================================================================
